---- MODULE Spec2Model ----
(***************************************************************************)
(* Model of principal.py: the Streamlit dashboard of the Costa Rican road  *)
(* network.  One run of the script is a sequence of steps (pc); a new      *)
(* category selection re-executes the script from the top.                 *)
(*                                                                         *)
(* Geometry is modelled on one axis divided in cells of 1 km: a geometry   *)
(* is a set of cells, the intersection of two geometries is the            *)
(* intersection of their cell sets, a length or an area is the number of   *)
(* cells.  Canton names and road categories are integers, ordered the way  *)
(* the labels sort.                                                        *)
(***************************************************************************)
EXTENDS Integers, Sequences, FiniteSets, TLC

VARIABLES
    archivos,              \* condition of the two files under data/
    red_vial,              \* features of data/red_vial.geojson
    eleccion,              \* widget state of the sidebar selectbox
    pc,                    \* position of the running script
    error,                 \* exception that ended the run
    vias, cantones,
    lista_categorias, filtro_categoria,
    cantones_vias, por_categoria, por_canton,
    tabla, top_15, top_15_por_categoria, fig_barras, por_canton_pie,
    salidas,               \* outputs emitted so far by the run
    capas,                 \* overlays drawn on the Leaflet map, bottom to top
    evento                 \* last event fired by the Leaflet map

vars == <<archivos, red_vial, eleccion, pc, error, vias, cantones,
          lista_categorias, filtro_categoria, cantones_vias, por_categoria,
          por_canton, tabla, top_15, top_15_por_categoria, fig_barras,
          por_canton_pie, salidas, capas, evento>>

-----------------------------------------------------------------------------
(* Bounds *)

MaxVias == 2        \* road segments in red_vial.geojson
MaxCantones == 2    \* cantons in limite_cantonal.geojson
MaxExtra == 2       \* rows of por_canton beyond TopN in the ranking inputs
MaxDesvios == 1     \* rows of the ranking inputs moved onto a neighbour's longitud

(* Program constants *)

TopN == 15          \* nlargest(15, ...) and index >= 15
OtrosCantones == 0  \* the label 'Otros cantones'

Categorias == {1, 2}    \* the values of the column categoria, in sort order
SinCategoria == 0       \* filtro_categoria before line 85 binds it
SinEleccion == 0        \* the selectbox before the user picks a value

-----------------------------------------------------------------------------
(* Generic helpers *)

Rango(s) == {s[i] : i \in DOMAIN s}

Min2(a, b) == IF a <= b THEN a ELSE b

RECURSIVE SumaSeq(_)
SumaSeq(s) == IF s = <<>> THEN 0 ELSE Head(s) + SumaSeq(Tail(s))

RECURSIVE SumaConj(_, _)
SumaConj(S, f) ==
    IF S = {} THEN 0
    ELSE LET x == CHOOSE y \in S : TRUE IN f[x] + SumaConj(S \ {x}, f)

MaxDe(S) == CHOOSE x \in S : \A y \in S : y <= x
MinDe(S) == CHOOSE x \in S : \A y \in S : x <= y

RECURSIVE Ascendente(_)
Ascendente(S) ==
    IF S = {} THEN <<>> ELSE LET x == MinDe(S) IN <<x>> \o Ascendente(S \ {x})

-----------------------------------------------------------------------------
(* Input layers *)

LongitudEje == MaxCantones + 2

Celdas == 1..LongitudEje

\* Line geometries: every stretch lo..hi of the axis.
Lineas == {lo..hi : lo \in Celdas, hi \in Celdas} \ {{}}

\* Polygon of canton k: canton 1 covers two cells, the others one cell; the
\* last cell of the axis lies outside every canton.
Poligono(k) == IF k = 1 THEN {1, 2} ELSE {k + 1}

\* Features of data/limite_cantonal.geojson (names are unique in the layer).
limite_cantonal ==
    [k \in 1..MaxCantones |->
        [id |-> 100 + k, canton |-> k, provincia |-> 1, geometry |-> Poligono(k)]]

\* Possible features of data/red_vial.geojson.
Tramos == [categoria : Categorias, codigo : {1}, geometry : Lineas]

\* Place of a segment in the order category, first cell, last cell.
Clave(t) ==
    (t.categoria * (LongitudEje + 1) + MinDe(t.geometry)) * (LongitudEje + 1)
        + MaxDe(t.geometry)

\* The road files of 1 to MaxVias segments.  No step reads the position of a
\* feature in the file, so each collection of segments is listed in one
\* order, ascending by Clave.
RedesViales ==
    {s \in UNION {[1..n -> Tramos] : n \in 1..MaxVias} :
        \A i \in DOMAIN s : i > 1 => Clave(s[i - 1]) <= Clave(s[i])}

\* Condition of the files: both as expected, or one fault in one of them.
\* "otro_crs": a layer that is well formed but not in EPSG:4326.
EstadosArchivo ==
    {"ok", "otro_crs", "vias_ausente", "vias_corrupto", "vias_sin_columna",
     "cantones_ausente", "cantones_corrupto", "cantones_sin_columna"}

-----------------------------------------------------------------------------
(* Geometric measurement *)

\* geod.geometry_length / 1e3: geodesic length of a line geometry, in km.
geometry_length(g) == Cardinality(g)

\* abs(geod.geometry_area_perimeter(x)[0]) / 1e6: area of a polygon, in km2.
area_f(g) == Cardinality(g)

-----------------------------------------------------------------------------
(* Loading *)

\* gpd.read_file("data/red_vial.geojson") and the column selection.
read_file_vias_narrowed ==
    IF eleccion = SinEleccion THEN red_vial
    ELSE SelectSeq(red_vial, LAMBDA r : r.categoria = eleccion)

read_file_vias == red_vial

\* gpd.read_file("data/limite_cantonal.geojson"), the column selection and
\* the area column.
read_file_cantones ==
    [k \in DOMAIN limite_cantonal |->
        [id |-> limite_cantonal[k].id,
         canton |-> limite_cantonal[k].canton,
         provincia |-> limite_cantonal[k].provincia,
         geometry |-> limite_cantonal[k].geometry,
         area |-> area_f(limite_cantonal[k].geometry)]]

\* The exception raised while loading the road layer, "" when there is none.
\* The CRS of the layer is never read.
error_carga_vias(a) ==
    CASE a = "vias_ausente" -> "DriverError"
      [] a = "vias_corrupto" -> "DriverError"
      [] a = "vias_sin_columna" -> "KeyError"
      [] OTHER -> ""

error_carga_cantones(a) ==
    CASE a = "cantones_ausente" -> "DriverError"
      [] a = "cantones_corrupto" -> "DriverError"
      [] a = "cantones_sin_columna" -> "KeyError"
      [] OTHER -> ""

-----------------------------------------------------------------------------
(* Filter stage *)

\* vias['categoria'].unique().tolist() followed by sort().
categorias_ordenadas(v) == Ascendente({v[i].categoria : i \in DOMAIN v})

\* st.sidebar.selectbox: the widget's value, the first option by default.
selectbox(opciones, valor) ==
    IF valor \in Rango(opciones) THEN valor ELSE opciones[1]

\* vias[vias['categoria'] == filtro_categoria]
filtrar(v, c) == SelectSeq(v, LAMBDA r : r.categoria = c)

-----------------------------------------------------------------------------
(* Spatial join and aggregation *)

\* Row of the overlay for segment v[i] and canton c[j]: the attributes of
\* both and the clipped geometry.
fila_overlay(v, c, i, j) ==
    [categoria |-> v[i].categoria, codigo |-> v[i].codigo,
     id |-> c[j].id, canton |-> c[j].canton, provincia |-> c[j].provincia,
     area |-> c[j].area, geometry |-> v[i].geometry \cap c[j].geometry]

\* Every (segment, canton) pair, segment by segment.
pares(v, c) ==
    [p \in 1..(Len(v) * Len(c)) |->
        fila_overlay(v, c, ((p - 1) \div Len(c)) + 1, ((p - 1) % Len(c)) + 1)]

\* A join that keeps the pairs with an empty intersection too.
overlay_todos_los_pares(v, c) == pares(v, c)

\* vias.overlay(cantones, how='intersection'): one row per (segment, canton)
\* pair whose intersection is not empty.
overlay(v, c) == SelectSeq(pares(v, c), LAMBDA r : r.geometry # {})

\* cantones_vias['longitud'] = cantones_vias.geometry.apply(geod.geometry_length) / 1e3
\* measured on the clipped geometry of each row.
con_longitud(cv) ==
    [p \in DOMAIN cv |->
        [categoria |-> cv[p].categoria, codigo |-> cv[p].codigo,
         id |-> cv[p].id, canton |-> cv[p].canton,
         provincia |-> cv[p].provincia, area |-> cv[p].area,
         geometry |-> cv[p].geometry,
         longitud |-> geometry_length(cv[p].geometry)]]

\* A length column that is computed for an empty frame too.
sin_error_longitud(cv) == ""

\* Series.apply on an empty GeoSeries returns an empty GeoSeries of geometry
\* dtype, and dividing a geometry array by 1e3 raises TypeError.
error_longitud(cv) == IF cv = <<>> THEN "TypeError" ELSE ""

\* agg 'max' of a column over the rows of a group.
agg_max(filas, columna) == MaxDe({filas[i][columna] : i \in DOMAIN filas})

\* agg 'sum' of a column over the rows of a group.
agg_sum(filas, columna) == SumaSeq([i \in DOMAIN filas |-> filas[i][columna]])

\* agg 'first' of a column over the rows of a group.
agg_first(filas, columna) == filas[1][columna]

\* cantones_vias.groupby(['canton','categoria'], as_index=False).agg(...):
\* one row per (canton, categoria) present, in ascending key order.
groupby_canton_categoria(cv) ==
    LET nombres == Ascendente({cv[p].canton : p \in DOMAIN cv})
        grupo(k) == SelectSeq(cv, LAMBDA r : r.canton = k)
        cats(k) == Ascendente({r.categoria : r \in Rango(grupo(k))})
        filas_de(k) ==
            [q \in DOMAIN cats(k) |->
                LET g == SelectSeq(grupo(k), LAMBDA r : r.categoria = cats(k)[q])
                IN [canton |-> k, categoria |-> cats(k)[q],
                    area |-> agg_first(g, "area"),
                    longitud |-> agg_sum(g, "longitud")]]
        concat[n \in 0..Len(nombres)] ==
            IF n = 0 THEN <<>> ELSE concat[n - 1] \o filas_de(nombres[n])
    IN concat[Len(nombres)]

\* cantones_vias.dissolve(by='canton', aggfunc={...}) and the densidad
\* column: one row per canton present, indexed by canton in ascending order.
\* densidad = longitud / area is kept as the fraction num/den.
dissolve_canton(cv) ==
    LET nombres == Ascendente({cv[p].canton : p \in DOMAIN cv})
    IN [n \in DOMAIN nombres |->
          LET g == SelectSeq(cv, LAMBDA r : r.canton = nombres[n])
          IN [canton |-> nombres[n],
              geometry |-> UNION {r.geometry : r \in Rango(g)},
              id |-> agg_first(g, "id"),
              area |-> agg_first(g, "area"),
              longitud |-> agg_sum(g, "longitud"),
              densidad |-> [num |-> agg_sum(g, "longitud"),
                            den |-> agg_first(g, "area")]]]

-----------------------------------------------------------------------------
(* Presentation *)

\* por_categoria.pivot(index='canton', columns='categoria', values='longitud')
\* concatenated (inner join on the canton index) with por_canton['densidad'].
\* After the filter there is one categoria column and no missing cell.
tabla_de(pcat, pcan) ==
    LET con_densidad ==
            SelectSeq(pcat, LAMBDA r : \E i \in DOMAIN pcan : pcan[i].canton = r.canton)
    IN [n \in DOMAIN con_densidad |->
          LET r == con_densidad[n]
              d == CHOOSE i \in DOMAIN pcan : pcan[i].canton = r.canton
          IN [canton |-> r.canton, categoria |-> r.categoria,
              longitud |-> r.longitud, densidad |-> pcan[d].densidad]]

\* The first n rows in index order, whatever their longitud.
head(df, n) ==
    [k \in 1..Min2(n, Len(df)) |-> [canton |-> df[k].canton, longitud |-> df[k].longitud]]

\* Position of row i of df in descending order of longitud, equal values in
\* index order (keep='first').
puesto(df, i) ==
    1 + Cardinality({j \in DOMAIN df : df[j].longitud > df[i].longitud})
      + Cardinality({j \in DOMAIN df : j < i /\ df[j].longitud = df[i].longitud})

\* df.nlargest(n, 'longitud')['longitud']: the n rows with the largest
\* longitud, in descending order, as a series indexed by canton.
nlargest(df, n) ==
    [k \in 1..Min2(n, Len(df)) |->
        LET i == CHOOSE j \in DOMAIN df : puesto(df, j) = k
        IN [canton |-> df[i].canton, longitud |-> df[i].longitud]]

\* por_categoria.join(top_15, on='canton', how='inner', rsuffix='_canton')
join_inner(pcat, top) ==
    LET dentro == SelectSeq(pcat, LAMBDA r : \E k \in DOMAIN top : top[k].canton = r.canton)
    IN [n \in DOMAIN dentro |->
          LET r == dentro[n]
              k == CHOOSE j \in DOMAIN top : top[j].canton = r.canton
          IN [canton |-> r.canton, categoria |-> r.categoria, area |-> r.area,
              longitud |-> r.longitud, longitud_canton |-> top[k].longitud]]

\* Every order of the rows S in which the column never increases.  The sort
\* of sort_values is numpy's quicksort, which is not stable: rows with equal
\* values come out in any order.
RECURSIVE ordenes_descendentes(_, _)
ordenes_descendentes(S, columna) ==
    IF S = {} THEN {<<>>}
    ELSE LET m == MaxDe({r[columna] : r \in S})
         IN UNION {{<<r>> \o t : t \in ordenes_descendentes(S \ {r}, columna)} :
                     r \in {x \in S : x[columna] = m}}

\* Every order of the rows S in which the column never decreases.
RECURSIVE ordenes_ascendentes(_, _)
ordenes_ascendentes(S, columna) ==
    IF S = {} THEN {<<>>}
    ELSE LET m == MinDe({r[columna] : r \in S})
         IN UNION {{<<r>> \o t : t \in ordenes_ascendentes(S \ {r}, columna)} :
                     r \in {x \in S : x[columna] = m}}

\* The sort with ascending=True.
sort_values_ascending(df, columna) == ordenes_ascendentes(Rango(df), columna)

\* df.sort_values(columna, ascending=False): the possible results.
sort_values(df, columna) == ordenes_descendentes(Rango(df), columna)

\* por_canton_pie.loc[por_canton_pie.index >= 15, 'canton'] = 'Otros cantones'
\* on the re-indexed frame (positions count from 0, sequences from 1).
otros_cantones(df) ==
    [k \in DOMAIN df |->
        [canton |-> IF k - 1 >= TopN THEN OtrosCantones ELSE df[k].canton,
         longitud |-> df[k].longitud]]

-----------------------------------------------------------------------------
(* Map *)

\* No layer is kept in front.
sin_capas_al_frente == <<>>

\* m.keep_in_front(l1, l2): the layers brought to the front, in this order.
objects_to_stay_in_front == <<"l1", "l2">>

\* Leaflet's bringToFront: a layer drawn on the map moves to the top, a
\* layer that is not on the map stays off it.
bringToFront(c, l) ==
    IF l \in Rango(c) THEN SelectSeq(c, LAMBDA x : x # l) \o <<l>> ELSE c

\* folium.GeoJson with a style_function validates it on features[0] of the
\* data (folium 0.12), which raises IndexError when there is no feature.
error_geojson(datos) == IF datos = <<>> THEN "IndexError" ELSE ""

\* The handler folium installs for document ready and for 'overlayadd'.
objects_in_front(c) ==
    LET paso[n \in 0..Len(objects_to_stay_in_front)] ==
            IF n = 0 THEN c
            ELSE bringToFront(paso[n - 1], objects_to_stay_in_front[n])
    IN paso[Len(objects_to_stay_in_front)]

-----------------------------------------------------------------------------
(* The script *)

\* The names of a fresh run: nothing is bound, nothing is displayed.
Inicio ==
    /\ pc = "vias"
    /\ error = ""
    /\ vias = <<>>
    /\ cantones = <<>>
    /\ lista_categorias = <<>>
    /\ filtro_categoria = SinCategoria
    /\ cantones_vias = <<>>
    /\ por_categoria = <<>>
    /\ por_canton = <<>>
    /\ tabla = <<>>
    /\ top_15 = <<>>
    /\ top_15_por_categoria = <<>>
    /\ fig_barras = <<>>
    /\ por_canton_pie = <<>>
    /\ salidas = {}
    /\ capas = <<>>
    /\ evento = ""

Init ==
    /\ archivos \in EstadosArchivo
    /\ red_vial \in RedesViales
    /\ eleccion = SinEleccion
    /\ Inicio

\* Lines 67-69: the road layer.
CargarVias ==
    /\ pc = "vias"
    /\ LET e == error_carga_vias(archivos)
       IN IF e # ""
          THEN /\ error' = e
               /\ pc' = "error"
               /\ vias' = vias
          ELSE /\ vias' = read_file_vias
               /\ pc' = "cantones"
               /\ error' = error
    /\ UNCHANGED <<archivos, red_vial, eleccion, cantones, lista_categorias,
                   filtro_categoria, cantones_vias, por_categoria, por_canton,
                   tabla, top_15, top_15_por_categoria, fig_barras,
                   por_canton_pie, salidas, capas, evento>>

\* Lines 74-79: the canton layer and its area column.
CargarCantones ==
    /\ pc = "cantones"
    /\ LET e == error_carga_cantones(archivos)
       IN IF e # ""
          THEN /\ error' = e
               /\ pc' = "error"
               /\ cantones' = cantones
          ELSE /\ cantones' = read_file_cantones
               /\ pc' = "seleccion"
               /\ error' = error
    /\ UNCHANGED <<archivos, red_vial, eleccion, vias, lista_categorias,
                   filtro_categoria, cantones_vias, por_categoria, por_canton,
                   tabla, top_15, top_15_por_categoria, fig_barras,
                   por_canton_pie, salidas, capas, evento>>

\* Lines 83-86: the list of categories and the value of the selectbox.
Seleccion ==
    /\ pc = "seleccion"
    /\ lista_categorias' = categorias_ordenadas(vias)
    /\ filtro_categoria' = selectbox(lista_categorias', eleccion)
    /\ pc' = "filtrado"
    /\ UNCHANGED <<archivos, red_vial, eleccion, error, vias, cantones,
                   cantones_vias, por_categoria, por_canton, tabla, top_15,
                   top_15_por_categoria, fig_barras, por_canton_pie, salidas,
                   capas, evento>>

\* Line 94: vias is rebound to the rows of the selected category.
Filtrado ==
    /\ pc = "filtrado"
    /\ vias' = filtrar(vias, filtro_categoria)
    /\ pc' = "overlay"
    /\ UNCHANGED <<archivos, red_vial, eleccion, error, cantones,
                   lista_categorias, filtro_categoria, cantones_vias,
                   por_categoria, por_canton, tabla, top_15,
                   top_15_por_categoria, fig_barras, por_canton_pie, salidas,
                   capas, evento>>

\* Lines 100-101: the overlay and the longitud column.
Overlay ==
    /\ pc = "overlay"
    /\ LET cv == overlay(vias, cantones)
           e == error_longitud(cv)
       IN IF e # ""
          THEN /\ cantones_vias' = cv
               /\ error' = e
               /\ pc' = "error"
          ELSE /\ cantones_vias' = con_longitud(cv)
               /\ pc' = "agregar"
               /\ error' = error
    /\ UNCHANGED <<archivos, red_vial, eleccion, vias, cantones,
                   lista_categorias, filtro_categoria, por_categoria,
                   por_canton, tabla, top_15, top_15_por_categoria, fig_barras,
                   por_canton_pie, salidas, capas, evento>>

\* Lines 103-116: the two aggregates and the density.
Agregar ==
    /\ pc = "agregar"
    /\ por_categoria' = groupby_canton_categoria(cantones_vias)
    /\ por_canton' = dissolve_canton(cantones_vias)
    /\ pc' = "tabla"
    /\ UNCHANGED <<archivos, red_vial, eleccion, error, vias, cantones,
                   lista_categorias, filtro_categoria, cantones_vias, tabla,
                   top_15, top_15_por_categoria, fig_barras, por_canton_pie,
                   salidas, capas, evento>>

\* Lines 125-135: the table is displayed.
Tabla ==
    /\ pc = "tabla"
    /\ tabla' = tabla_de(por_categoria, por_canton)
    /\ salidas' = salidas \cup {"tabla"}
    /\ pc' = "barras"
    /\ UNCHANGED <<archivos, red_vial, eleccion, error, vias, cantones,
                   lista_categorias, filtro_categoria, cantones_vias,
                   por_categoria, por_canton, top_15, top_15_por_categoria,
                   fig_barras, por_canton_pie, capas, evento>>

\* Lines 140-155: the bar chart of the 15 cantons with the largest longitud.
Barras ==
    /\ pc = "barras"
    /\ top_15' = nlargest(por_canton, TopN)
    /\ top_15_por_categoria' = join_inner(por_categoria, top_15')
    /\ fig_barras' \in sort_values(top_15_por_categoria', "longitud_canton")
    /\ salidas' = salidas \cup {"barras"}
    /\ pc' = "pastel"
    /\ UNCHANGED <<archivos, red_vial, eleccion, error, vias, cantones,
                   lista_categorias, filtro_categoria, cantones_vias,
                   por_categoria, por_canton, tabla, por_canton_pie, capas, evento>>

\* Lines 157-168: the pie chart, the cantons after the first 15 relabelled.
Pastel ==
    /\ pc = "pastel"
    /\ \E orden \in sort_values(por_canton, "longitud") :
           por_canton_pie' = otros_cantones(orden)
    /\ salidas' = salidas \cup {"pastel"}
    /\ pc' = "mapa"
    /\ UNCHANGED <<archivos, red_vial, eleccion, error, vias, cantones,
                   lista_categorias, filtro_categoria, cantones_vias,
                   por_categoria, por_canton, tabla, top_15,
                   top_15_por_categoria, fig_barras, capas, evento>>

\* Lines 172-207: the map with the choropleth l1 and the road layer l2,
\* added in this order; once displayed, document ready brings the layers to
\* keep in front to the front.
Mapa ==
    /\ pc = "mapa"
    /\ LET e == error_geojson(por_canton)
       IN IF e # ""
          THEN /\ error' = e
               /\ pc' = "error"
               /\ UNCHANGED <<capas, evento, salidas>>
          ELSE /\ capas' = objects_in_front(<<"l1", "l2">>)
               /\ evento' = "ready"
               /\ salidas' = salidas \cup {"mapa"}
               /\ pc' = "fin"
               /\ error' = error
    /\ UNCHANGED <<archivos, red_vial, eleccion, vias, cantones,
                   lista_categorias, filtro_categoria, cantones_vias,
                   por_categoria, por_canton, tabla, top_15,
                   top_15_por_categoria, fig_barras, por_canton_pie>>

\* The user picks another category in the selectbox: Streamlit runs the
\* script again from the top in a fresh namespace; the files are untouched
\* and the widget keeps the value picked.
Seleccionar(c) ==
    /\ c \in Rango(lista_categorias)
    /\ c # filtro_categoria
    /\ eleccion' = c
    /\ pc' = "vias"
    /\ error' = ""
    /\ vias' = <<>>
    /\ cantones' = <<>>
    /\ lista_categorias' = <<>>
    /\ filtro_categoria' = SinCategoria
    /\ cantones_vias' = <<>>
    /\ por_categoria' = <<>>
    /\ por_canton' = <<>>
    /\ tabla' = <<>>
    /\ top_15' = <<>>
    /\ top_15_por_categoria' = <<>>
    /\ fig_barras' = <<>>
    /\ por_canton_pie' = <<>>
    /\ salidas' = {}
    /\ capas' = <<>>
    /\ evento' = ""
    /\ UNCHANGED <<archivos, red_vial>>

\* The layer control removes an overlay from the map.
OcultarCapa(l) ==
    /\ pc = "fin"
    /\ l \in Rango(capas)
    /\ capas' = SelectSeq(capas, LAMBDA x : x # l)
    /\ evento' = "overlayremove"
    /\ UNCHANGED <<archivos, red_vial, eleccion, pc, error, vias, cantones,
                   lista_categorias, filtro_categoria, cantones_vias,
                   por_categoria, por_canton, tabla, top_15,
                   top_15_por_categoria, fig_barras, por_canton_pie, salidas>>

\* The layer control adds an overlay: Leaflet draws it above the others and
\* fires 'overlayadd'.
MostrarCapa(l) ==
    /\ pc = "fin"
    /\ l \notin Rango(capas)
    /\ capas' = objects_in_front(capas \o <<l>>)
    /\ evento' = "overlayadd"
    /\ UNCHANGED <<archivos, red_vial, eleccion, pc, error, vias, cantones,
                   lista_categorias, filtro_categoria, cantones_vias,
                   por_categoria, por_canton, tabla, top_15,
                   top_15_por_categoria, fig_barras, por_canton_pie, salidas>>

Next ==
    \/ CargarVias
    \/ CargarCantones
    \/ Seleccion
    \/ Filtrado
    \/ Overlay
    \/ Agregar
    \/ Tabla
    \/ Barras
    \/ Pastel
    \/ Mapa
    \/ \E c \in Categorias : Seleccionar(c)
    \/ \E l \in {"l1", "l2"} : OcultarCapa(l)
    \/ \E l \in {"l1", "l2"} : MostrarCapa(l)

Spec == Init /\ [][Next]_vars

-----------------------------------------------------------------------------
(* The ranking steps on aggregates of up to TopN + MaxExtra cantons *)

\* The ways to move up to MaxDesvios of n rows 2 km up or down: sets of
\* <<row, shift>> with one shift per row.
Desvios(n) ==
    LET hasta[k \in 0..MaxDesvios] ==
            IF k = 0 THEN {{}}
            ELSE hasta[k - 1] \cup
                 {D \cup {<<i, s>>} :
                    D \in hasta[k - 1],
                    i \in 1..n,
                    s \in {-2, 2}}
    IN {D \in hasta[MaxDesvios] : \A p \in D, q \in D : p[1] = q[1] => p = q}

\* Longitud columns of n rows: row i has 2i + 2 km, and the rows of a set of
\* Desvios(n) are moved onto the longitud of a neighbour.
ColumnasLongitud(n) ==
    {[i \in 1..n |->
        2 * i + 2 + (IF \E p \in D : p[1] = i
                     THEN (CHOOSE p \in D : p[1] = i)[2] ELSE 0)] :
        D \in Desvios(n)}

\* The aggregate por_canton with the longitud column col, one cell per canton.
por_canton_de(col) ==
    [i \in DOMAIN col |->
        [canton |-> i, geometry |-> {i}, id |-> 100 + i, area |-> 1,
         longitud |-> col[i], densidad |-> [num |-> col[i], den |-> 1]]]

por_categoria_de(col) ==
    [i \in DOMAIN col |-> [canton |-> i, categoria |-> 1, area |-> 1, longitud |-> col[i]]]

\* The script has displayed the table and is about to rank the cantons.  The
\* frames upstream of the aggregates are not read by the ranking steps.
InitRanking ==
    /\ archivos = "ok"
    /\ red_vial = <<>>
    /\ eleccion = SinEleccion
    /\ pc = "barras"
    /\ error = ""
    /\ vias = <<>>
    /\ cantones = <<>>
    /\ lista_categorias = <<1>>
    /\ filtro_categoria = 1
    /\ cantones_vias = <<>>
    /\ \E n \in (TopN - 1)..(TopN + MaxExtra) : \E col \in ColumnasLongitud(n) :
          /\ por_categoria = por_categoria_de(col)
          /\ por_canton = por_canton_de(col)
    /\ tabla = tabla_de(por_categoria, por_canton)
    /\ top_15 = <<>>
    /\ top_15_por_categoria = <<>>
    /\ fig_barras = <<>>
    /\ por_canton_pie = <<>>
    /\ salidas = {"tabla"}
    /\ capas = <<>>
    /\ evento = ""

NextRanking ==
    \/ Barras
    \/ Pastel

SpecRanking == InitRanking /\ [][NextRanking]_vars

-----------------------------------------------------------------------------
(* Properties *)

Agregado == pc \in {"tabla", "barras", "pastel", "mapa", "fin"}

\* Segments of the road file of category c that cross the polygon of canton k.
Cruzan(c, k) ==
    {i \in DOMAIN red_vial :
        red_vial[i].categoria = c /\ red_vial[i].geometry \cap Poligono(k) # {}}

Nombres(df) == {df[i].canton : i \in DOMAIN df}

\* C1: a canton has a row in por_categoria or in por_canton only if a road of
\* the selected category crosses its polygon; no row has length 0 or
\* density 0.
C1_SoloCantonesCruzados ==
    /\ \A i \in DOMAIN por_categoria :
          /\ Cruzan(filtro_categoria, por_categoria[i].canton) # {}
          /\ por_categoria[i].categoria = filtro_categoria
          /\ por_categoria[i].longitud > 0
    /\ \A i \in DOMAIN por_canton :
          /\ Cruzan(filtro_categoria, por_canton[i].canton) # {}
          /\ por_canton[i].longitud > 0
          /\ por_canton[i].densidad.num > 0

\* The aggregates exist, one canton has a row and another one, crossed only
\* by roads of the other category, has none.
C1_Testigo ==
    /\ Agregado
    /\ \E k \in 1..MaxCantones, j \in 1..MaxCantones :
          /\ k \in Nombres(por_canton) /\ k \in Nombres(por_categoria)
          /\ j \notin Nombres(por_canton) /\ j \notin Nombres(por_categoria)
          /\ \E c \in Categorias \ {filtro_categoria} : Cruzan(c, j) # {}

\* C2: the longitud of every (canton, categoria) group of por_categoria is the
\* sum, over the segments of that category crossing the canton, of the length
\* of the piece of the segment inside the canton.
C2_LongitudEsSumaDeRecortes ==
    \A i \in DOMAIN por_categoria :
        LET k == por_categoria[i].canton
            c == por_categoria[i].categoria
        IN por_categoria[i].longitud =
             SumaConj(Cruzan(c, k),
                      [j \in DOMAIN red_vial |->
                          Cardinality(red_vial[j].geometry \cap Poligono(k))])

\* Two segments of the selected category overlap inside canton 1 and one of
\* them goes on into canton 2; the aggregates exist.
C2_Testigo ==
    /\ Agregado
    /\ Len(red_vial) >= 2
    /\ red_vial[1].categoria = filtro_categoria
    /\ red_vial[2].categoria = filtro_categoria
    /\ red_vial[1].geometry \cap red_vial[2].geometry \cap Poligono(1) # {}
    /\ red_vial[2].geometry \cap Poligono(2) # {}

\* Sum of the k largest values of the column longitud among the rows I of df.
RECURSIVE SumaMayores(_, _, _)
SumaMayores(df, I, k) ==
    IF k = 0 \/ I = {} THEN 0
    ELSE LET i == CHOOSE x \in I : \A y \in I : df[y].longitud <= df[x].longitud
         IN df[i].longitud + SumaMayores(df, I \ {i}, k - 1)

Total(df) == SumaSeq([i \in DOMAIN df |-> df[i].longitud])

Otros(df) == {i \in DOMAIN df : df[i].canton = OtrosCantones}

PastelHecho == pc \in {"mapa", "fin"}

BarrasHechas == pc \in {"pastel", "mapa", "fin"}

\* C3: in the pie data the rows relabelled 'Otros cantones' add up to the
\* total longitud of por_canton minus the sum of its 15 largest longitud;
\* with 15 rows or fewer, no row is relabelled.
C3_OtrosEsTotalMenosTop ==
    PastelHecho =>
        /\ Len(por_canton_pie) = Len(por_canton)
        /\ SumaConj(Otros(por_canton_pie),
                    [i \in DOMAIN por_canton_pie |-> por_canton_pie[i].longitud])
             = Total(por_canton) - SumaMayores(por_canton, DOMAIN por_canton, TopN)
        /\ Cardinality(Otros(por_canton_pie)) =
             (IF Len(por_canton) <= TopN THEN 0 ELSE Len(por_canton) - TopN)

\* The pie data of an aggregate of more than 15 cantons.
C3_Testigo ==
    /\ PastelHecho
    /\ Len(por_canton) > TopN
    /\ Otros(por_canton_pie) # {}

\* C4: the top-15 selection holds min(15, rows of por_canton) cantons of
\* por_canton, every canton left out has a longitud no larger than that of
\* every canton in it, and the bar chart shows exactly those cantons, with
\* no 'Otros cantones' bar.
C4_Top15 ==
    BarrasHechas =>
        /\ Len(top_15) = Min2(TopN, Len(por_canton))
        /\ Cardinality(Nombres(top_15)) = Len(top_15)
        /\ \A k \in DOMAIN top_15 : \E i \in DOMAIN por_canton :
              /\ por_canton[i].canton = top_15[k].canton
              /\ por_canton[i].longitud = top_15[k].longitud
        /\ \A i \in DOMAIN por_canton :
              por_canton[i].canton \notin Nombres(top_15) =>
                 \A k \in DOMAIN top_15 : por_canton[i].longitud <= top_15[k].longitud
        /\ Nombres(fig_barras) = Nombres(top_15)
        /\ Len(fig_barras) = Len(top_15)
        /\ OtrosCantones \notin Nombres(fig_barras)

\* The bar chart of an aggregate of more than 15 cantons, the 15th and the
\* 16th with the same longitud.
C4_Testigo ==
    /\ BarrasHechas
    /\ Len(por_canton) > TopN
    /\ \E i \in DOMAIN por_canton :
          /\ por_canton[i].canton \notin Nombres(top_15)
          /\ por_canton[i].longitud = top_15[TopN].longitud

\* C5: when a file is missing or malformed, lacks a required column or is not
\* in EPSG:4326, the script stops while loading: no area is computed and no
\* step after the loading is reached.
C5_CargaAborta ==
    archivos # "ok" =>
        /\ cantones = <<>>
        /\ pc \in {"vias", "cantones", "error"}

\* C6: a run that raised an error has emitted none of the four outputs, and
\* a run that ended without error has emitted the four of them.
C6_TodoONada ==
    /\ (pc = "error") = (error # "")
    /\ error # "" => salidas = {}
    /\ pc = "fin" => salidas = {"tabla", "barras", "pastel", "mapa"}

\* A run that loaded both layers and failed in the computation.
C6_Testigo ==
    /\ pc = "error"
    /\ cantones # <<>>
    /\ lista_categorias # <<>>
    /\ salidas = {}

\* The aggregates of category c computed from the whole road file.
CategoriasDelArchivo == Ascendente({red_vial[i].categoria : i \in DOMAIN red_vial})

RecortesDe(c) ==
    LET del_archivo == SelectSeq(red_vial, LAMBDA r : r.categoria = c)
    IN con_longitud(overlay(del_archivo, read_file_cantones))

\* C7: in every run, after any sequence of selections, the category list is
\* that of the whole road file, the selected category is the one picked (the
\* first one before any pick), the aggregates are those of the whole road
\* file for that category, and no step changes the files.
C7_DependeSoloDeLaSeleccion ==
    /\ [](/\ lista_categorias # <<>> =>
               /\ lista_categorias = CategoriasDelArchivo
               /\ filtro_categoria =
                    (IF eleccion = SinEleccion THEN CategoriasDelArchivo[1]
                     ELSE eleccion)
          /\ Agregado =>
               /\ por_categoria = groupby_canton_categoria(RecortesDe(filtro_categoria))
               /\ por_canton = dissolve_canton(RecortesDe(filtro_categoria)))
    /\ [][red_vial' = red_vial /\ archivos' = archivos]_vars

\* The run of a category picked again after another one was picked: its
\* outputs are complete.
C7_Testigo ==
    /\ pc = "fin"
    /\ Len(lista_categorias) = 2
    /\ eleccion = lista_categorias[1]

\* The selected category has segments and none of them crosses a canton.
SinCruces ==
    /\ filtro_categoria # SinCategoria
    /\ \A k \in 1..MaxCantones : Cruzan(filtro_categoria, k) = {}

\* C8: when no segment of the selected category crosses a canton, the run
\* raises no error and the table it displays has no row.
C8_VacioSinError ==
    SinCruces =>
        /\ error = ""
        /\ pc # "error"
        /\ "tabla" \in salidas => tabla = <<>>

Posicion(c, l) == CHOOSE i \in DOMAIN c : c[i] = l

\* C9: whenever the choropleth l1 and the road layer l2 are both drawn, l2 is
\* drawn above l1.
C9_ViasSobreCoropletas ==
    {"l1", "l2"} \subseteq Rango(capas) =>
        Posicion(capas, "l1") < Posicion(capas, "l2")

\* Both layers are drawn again after the layer control added one back.
C9_Testigo ==
    /\ evento = "overlayadd"
    /\ {"l1", "l2"} \subseteq Rango(capas)

\* C10: the cantons shown one by one in the pie chart are the cantons of the
\* bar chart.
C10_MismosCantones ==
    PastelHecho =>
        Nombres(por_canton_pie) \ {OtrosCantones} = Nombres(top_15)

====
